---- MODULE Spec2Model ----
(***************************************************************************)
(* Model of the live-migration plugin of nvme-cli (plugins/lm/lm-nvme.c).  *)
(* One run of the program executes one sub-command handler: the handler    *)
(* parses its options into a config struct, validates it, builds one       *)
(* passthru command, submits it and returns.  Each handler is one action.  *)
(* The external collaborators (option parser, buffer allocator, file I/O,  *)
(* the device) are inputs chosen by the action.                            *)
(***************************************************************************)
EXTENDS Integers, Sequences, FiniteSets, TLC

\* ------------------------------------------------------------------ bounds
\* Largest controller-state buffer length, in bytes, handed to the decoder.
MaxLen == 132
\* Largest queue count a controller-state header declares.
MaxQueues == 4

\* ------------------------------------------------------- program constants
EINVAL == 22
ENOMEM == 12
NVME_ADMIN_TRACK_SEND == 61
NVME_ADMIN_MIGRATION_SEND == 65
NVME_ADMIN_MIGRATION_RECEIVE == 66
NVME_ADMIN_CONTROLLER_DATA_QUEUE == 69
CREATE_CONTROLLER_DATA_QUEUE == 0
DELETE_CONTROLLER_DATA_QUEUE == 1
TRACK_SEND_SELECT_LOG_USER_DATA_CHANGES == 0
TRACK_SEND_MANAGEMENT_OPERATION_STOP_LOGGING == 0
TRACK_SEND_MANAGEMENT_OPERATION_START_LOGGING == 1
MIGRATION_SEND_SUSPEND == 0
MIGRATION_SEND_RESUME == 1
MIGRATION_SEND_SET_CONTROLLER_STATE == 2
MIGRATION_RECV_GET_CONTROLLER_STATE == 0
lm_cdq_feature_id == 33
\* sizeof(struct lba_migration_queue_entry_type_0): 4 + 4 + 8 + 15 + 1
SizeofQueueEntry == 32
\* sizeof(struct controller_state_data_header), static_assert'ed
SizeofCsdHeader == 48
\* sizeof(struct nvme_controller_state_header), static_assert'ed
SizeofNvmeCsHeader == 8
\* sizeof(struct nvme_io_submission_queue_data), static_assert'ed
SizeofSqData == 24
\* sizeof(struct nvme_io_completion_queue_data), static_assert'ed
SizeofCqData == 24

\* ------------------------------------------------------ machine arithmetic
\* Values of __u8 and __u16 fields are plain naturals.  A 32-bit word
\* (__u32, __s32, a cdw field) is kept as its two 16-bit halves, so that
\* every intermediate value stays exact.
Pow2(n) == 2 ^ n
Half == Pow2(16)
W(h, l) == [hi |-> h, lo |-> l]
\* Conversion of an int to __u8 / __u16 (reduction modulo 2^w).
ToU8(x) == x % Pow2(8)
ToU16(x) == x % Half
\* Conversion of an int (|x| < 2^31) to a 32-bit word, two's complement.
ToU32(x) == W((x \div Half) % Half, x % Half)
\* The natural number a word holds (for words below 2^31).
WordVal(w) == w.hi * Half + w.lo
\* A word read as __s32 is negative when bit 31 is set.
IsNegS32(w) == w.hi >= Pow2(15)
\* Bit 31 and bits 15:0 of a word.
Bit31(w) == w.hi \div Pow2(15)
Low16(w) == w.lo

RECURSIVE Shl32(_, _)
\* w << n kept in 32 bits.
Shl32(w, n) ==
    IF n >= 16 THEN Shl32(W(w.lo, 0), n - 16)
    ELSE W(((w.hi * Pow2(n)) + ((w.lo * Pow2(n)) \div Half)) % Half, (w.lo * Pow2(n)) % Half)

\* w + k kept in 32 bits, for a small k >= 0.
Add32(w, k) == W((w.hi + ((w.lo + k) \div Half)) % Half, (w.lo + k) % Half)

\* w % m for a small m > 0.
Mod32(w, m) == (((w.hi % m) * (Half % m)) + (w.lo % m)) % m

RECURSIVE BitOr(_, _)
\* a | b on non-negative bit patterns of at most 16 bits.
BitOr(a, b) ==
    IF a = 0 THEN b
    ELSE IF b = 0 THEN a
    ELSE (IF (a % 2) = 1 \/ (b % 2) = 1 THEN 1 ELSE 0) + (2 * BitOr(a \div 2, b \div 2))

\* a | b on 32-bit words.
Or32(a, b) == W(BitOr(a.hi, b.hi), BitOr(a.lo, b.lo))

\* A __u64 is kept as its two 32-bit words; (__u32)(x) and (__u32)(x >> 32).
Lo32(x) == x.lo32
Hi32(x) == x.hi32

\* --------------------------------------------------------- external inputs
\* An optional numeric option: <<>> when the command line did not supply
\* it, <<v>> when it was given the value v.
Opt(S) == {<<>>} \cup {<<v>> : v \in S}
\* A char * value: the NULL pointer, or a string (a sequence of characters).
NullStr == [null |-> TRUE, s |-> <<>>]
Str(chars) == [null |-> FALSE, s |-> chars]
\* Return values of nvme_submit_admin_passthru / nvme_{set,get}_features:
\* negative = transport failure, 0 = success, positive = device status.
SubmitRets == {-1, 0, 2, 263}
\* Return values of parse_and_open: 0, or the error it reports.
ParseRets == {0, -EINVAL}
\* Address of a buffer nvme_alloc_huge returned; 0 is NULL.
BufAddr == 4096
\* What an external collaborator does when the run never reaches it.
NotReached == "not-reached"

\* ------------------------------------------------------------------- state
VARIABLES
    pc,         \* "start" before the handler runs, "exit" after it ended
    op,         \* name of the handler that ran
    args,       \* the options given on the command line
    env,        \* what the external collaborators did in this run
    cfg,        \* the handler's config struct when it ended
    allocs,     \* byte sizes passed to nvme_alloc_huge, in order
    submitted,  \* commands handed to the device, in order
    status,     \* "running", "returned" or "crashed"
    ret,        \* the handler's return value (when status = "returned")
    errs,       \* messages written by nvme_show_error / stderr, in order
    shown       \* what the handler decoded and printed from device data

vars == <<pc, op, args, env, cfg, allocs, submitted, status, ret, errs, shown>>

NotShown == [kind |-> "none"]

Init ==
    /\ pc = "start"
    /\ op = "none"
    /\ args = [none |-> TRUE]
    /\ env = [none |-> TRUE]
    /\ cfg = [none |-> TRUE]
    /\ allocs = <<>>
    /\ submitted = <<>>
    /\ status = "running"
    /\ ret = 0
    /\ errs = <<>>
    /\ shown = NotShown

\* The handler ended: record everything the run produced.
Finish(name, a, e, r) ==
    /\ pc' = "exit"
    /\ op' = name
    /\ args' = a
    /\ env' = e
    /\ cfg' = r.cfg
    /\ allocs' = r.allocs
    /\ submitted' = r.submitted
    /\ status' = r.status
    /\ ret' = r.ret
    /\ errs' = r.errs
    /\ shown' = r.shown

\* A handler's result when it returns v without having touched the device.
Early(c, v, msgs, al) ==
    [cfg |-> c, allocs |-> al, submitted |-> <<>>, status |-> "returned",
     ret |-> v, errs |-> msgs, shown |-> NotShown]

\* Mutant: a submit that did not return 0 is tried once more.
SubmittedWithRetry(c, cmd, err, v, msgs, al, sh) ==
    [cfg |-> c, allocs |-> al,
     submitted |-> IF err = 0 THEN <<[cmd |-> cmd, err |-> err]>>
                   ELSE <<[cmd |-> cmd, err |-> err], [cmd |-> cmd, err |-> err]>>,
     status |-> "returned", ret |-> v, errs |-> msgs, shown |-> sh]

\* A handler's result after one submit that returned err, the handler
\* returning v.
Submitted(c, cmd, err, v, msgs, al, sh) ==
    [cfg |-> c, allocs |-> al, submitted |-> <<[cmd |-> cmd, err |-> err]>>,
     status |-> "returned", ret |-> v, errs |-> msgs, shown |-> sh]

\* The message branch after a submit: status text for err > 0, an error
\* line for err < 0, nothing on stderr for success.
SubmitMsgs(err) ==
    IF err = 0 THEN <<>>
    ELSE IF err > 0 THEN <<"nvme_show_status">>
    ELSE <<"ERROR: submit failed">>

\* ------------------------------------------------------------- Create CDQ
SzVals == {W(0, 0), W(0, 7), W(0, 8), W(0, 9), W(0, 16), W(0, 60), W(1, 0), W(1, 4),
           W(Pow2(14), 0), W(Half - 1, Half - 1)}
CntlidVals == {0, 5, Half - 1}
QtVals == {0, 1, 255}

CreateCdqArgs == [sz : SzVals, cntlid : CntlidVals, qt : QtVals]
CreateCdqEnv ==
    [parse : ParseRets \ {0}, allocOk : {TRUE}, err : {0}]
    \cup [parse : {0}, allocOk : BOOLEAN, err : SubmitRets]

\* struct config after option parsing (defaults are 0; every option given
\* overwrites its field).
CreateCdqCfg(a) == [sz |-> a.sz, cntlid |-> ToU16(a.cntlid), qt |-> ToU8(a.qt)]

\* Mutant: the remainder by the entry size in bytes, not in dwords.
CreateCdqSizeRemBytes(c) == Mod32(c.sz, SizeofQueueEntry)

\* cfg.sz % (sizeof(struct lba_migration_queue_entry_type_0) >> 2)
CreateCdqSizeRem(c) == Mod32(c.sz, SizeofQueueEntry \div Pow2(2))

\* The passthru command of lm_create_cdq.
CreateCdqCmd(c, queue) ==
    [opcode |-> NVME_ADMIN_CONTROLLER_DATA_QUEUE,
     cdw10 |-> Or32(Shl32(ToU32(c.qt), 16), ToU32(CREATE_CONTROLLER_DATA_QUEUE)),
     cdw11 |-> Or32(Shl32(ToU32(c.cntlid), 16), ToU32(1)),
     cdw12 |-> c.sz,
     cdw13 |-> ToU32(0),
     cdw15 |-> ToU32(0),
     addr |-> queue,
     data_len |-> Shl32(c.sz, 2)]

CreateCdqRun(a, e) ==
    LET c == CreateCdqCfg(a) IN
    IF e.parse # 0 THEN Early(c, e.parse, <<>>, <<>>)
    ELSE IF CreateCdqSizeRem(c) # 0
        THEN Early(c, EINVAL, <<"ERROR: Size must be dword multiple of queue entry size">>, <<>>)
    ELSE IF ~e.allocOk
        THEN Early(c, -ENOMEM, <<"ERROR: nvme_alloc failed">>, <<Shl32(c.sz, 2)>>)
    ELSE Submitted(c, CreateCdqCmd(c, BufAddr), e.err, e.err, SubmitMsgs(e.err),
                   <<Shl32(c.sz, 2)>>, NotShown)

lm_create_cdq ==
    /\ pc = "start"
    /\ \E a \in CreateCdqArgs, e \in CreateCdqEnv :
        Finish("create-cdq", a, e, CreateCdqRun(a, e))

\* ------------------------------------------------------------- Delete CDQ
CdqidVals == {0, 3, Half - 1}

DeleteCdqArgs == [cdqid : CdqidVals]
DeleteCdqEnv == [parse : ParseRets \ {0}, err : {0}] \cup [parse : {0}, err : SubmitRets]

DeleteCdqCfg(a) == [cdqid |-> ToU16(a.cdqid)]

DeleteCdqCmd(c) ==
    [opcode |-> NVME_ADMIN_CONTROLLER_DATA_QUEUE,
     cdw10 |-> ToU32(DELETE_CONTROLLER_DATA_QUEUE),
     cdw11 |-> ToU32(c.cdqid),
     cdw12 |-> ToU32(0),
     cdw13 |-> ToU32(0),
     cdw15 |-> ToU32(0),
     addr |-> 0,
     data_len |-> ToU32(0)]

DeleteCdqRun(a, e) ==
    LET c == DeleteCdqCfg(a) IN
    IF e.parse # 0 THEN Early(c, e.parse, <<>>, <<>>)
    ELSE Submitted(c, DeleteCdqCmd(c), e.err, e.err, SubmitMsgs(e.err), <<>>, NotShown)

lm_delete_cdq ==
    /\ pc = "start"
    /\ \E a \in DeleteCdqArgs, e \in DeleteCdqEnv :
        Finish("delete-cdq", a, e, DeleteCdqRun(a, e))

\* -------------------------------------------------------------- Track Send
SelectVals == {0, 1, 2, 255}
MosVals == {0, 1, 7}

TrackSendArgs ==
    [select : Opt(SelectVals), mos : MosVals, cdqid : CdqidVals,
     start : BOOLEAN, stop : BOOLEAN]
TrackSendEnv == [parse : ParseRets \ {0}, err : {0}] \cup [parse : {0}, err : SubmitRets]

\* struct config: .select = -1 stored in a __u8, .mos = 0, .cdqid = 0,
\* overwritten by the options given.
TrackSendCfg(a) ==
    [select |-> IF a.select = <<>> THEN ToU8(-1) ELSE ToU8(a.select[1]),
     mos |-> ToU8(a.mos),
     cdqid |-> ToU16(a.cdqid),
     start |-> a.start,
     stop |-> a.stop]

\* cfg.select == -1: the __u8 is promoted to int before the comparison.
TrackSendSelectMissing(c) == c.select = -1

\* cfg.select != TRACK_SEND_SELECT_LOG_USER_DATA_CHANGES
TrackSendSelectUnsupported(c) == c.select # TRACK_SEND_SELECT_LOG_USER_DATA_CHANGES

\* Mutant: the start/stop exclusion is not checked.
TrackSendStartAndStopUnchecked(c) == FALSE

\* cfg.start && cfg.stop
TrackSendStartAndStop(c) == c.start /\ c.stop

\* Mutant: start and stop leave the supplied mos alone.
TrackSendMosNoOverride(c) == c.mos

\* cfg.mos after the start/stop mapping.
TrackSendMos(c) ==
    IF c.select = TRACK_SEND_SELECT_LOG_USER_DATA_CHANGES
    THEN IF c.start THEN TRACK_SEND_MANAGEMENT_OPERATION_START_LOGGING
         ELSE IF c.stop THEN TRACK_SEND_MANAGEMENT_OPERATION_STOP_LOGGING
         ELSE c.mos
    ELSE c.mos

TrackSendCmd(c) ==
    [opcode |-> NVME_ADMIN_TRACK_SEND,
     cdw10 |-> Or32(ToU32(c.select), Shl32(ToU32(c.mos), 16)),
     cdw11 |-> ToU32(c.cdqid),
     cdw12 |-> ToU32(0),
     cdw13 |-> ToU32(0),
     cdw15 |-> ToU32(0),
     addr |-> 0,
     data_len |-> ToU32(0)]

TrackSendRun(a, e) ==
    LET c == TrackSendCfg(a)
        c2 == [c EXCEPT !.mos = TrackSendMos(c)]
    IN
    IF e.parse # 0 THEN Early(c, e.parse, <<>>, <<>>)
    ELSE IF TrackSendSelectMissing(c)
        THEN Early(c, -EINVAL, <<"Select field required">>, <<>>)
    ELSE IF TrackSendSelectUnsupported(c)
        THEN Early(c, -EINVAL, <<"Unsupported select option">>, <<>>)
    ELSE IF TrackSendStartAndStop(c)
        THEN Early(c, -EINVAL, <<"Must select one of start & stop, not both">>, <<>>)
    ELSE Submitted(c2, TrackSendCmd(c2), e.err, e.err, SubmitMsgs(e.err), <<>>, NotShown)

lm_track_send ==
    /\ pc = "start"
    /\ \E a \in TrackSendArgs, e \in TrackSendEnv :
        Finish("track-send", a, e, TrackSendRun(a, e))

\* ---------------------------------------------------------- Migration Send
StypeVals == {0, 1}
SeqindVals == {0, 3}
CsuuidiVals == {0, 1, 255}
CsviVals == {0, 2}
MsCntlidVals == {0, 5}
OffsetVals == {[hi32 |-> W(0, 0), lo32 |-> W(0, 0)], [hi32 |-> W(0, 1), lo32 |-> W(Half - 1, 16)]}
NumdVals == {W(0, 0), W(0, 2), W(Pow2(14), 0)}
InputVals == {NullStr, Str(<<>>), Str(<<"f">>)}
\* What happens to the input file: fopen fails; the buffer allocation
\* fails; fread returns fewer bytes than asked (errno left 0, or set to
\* EIO); everything is read.
EIO == 5
FileOutcomes == {"fopen-fails", "alloc-fails", "short-read", "short-read-eio", "ok"}
\* strlen(NULL) is undefined behaviour: the call faults, or it returns
\* zero or a non-zero length.
StrlenNullOutcomes == {"segv", "zero", "nonzero"}

MigrationSendArgs ==
    [sel : Opt({0, 1, 2, 3}), stype : StypeVals, seqind : SeqindVals,
     csuuidi : CsuuidiVals, csvi : CsviVals, cntlid : MsCntlidVals,
     offset : OffsetVals, numd : NumdVals, input : InputVals, delete : BOOLEAN]

\* struct config: .sel = -1 stored in a __u8, every other field 0 / NULL /
\* false, overwritten by the options given.
MigrationSendCfg(a) ==
    [sel |-> IF a.sel = <<>> THEN ToU8(-1) ELSE ToU8(a.sel[1]),
     stype |-> ToU8(a.stype),
     seqind |-> ToU8(a.seqind),
     csuuidi |-> ToU8(a.csuuidi),
     csvi |-> ToU8(a.csvi),
     cntlid |-> ToU16(a.cntlid),
     offset |-> a.offset,
     numd |-> a.numd,
     input |-> a.input,
     delete |-> a.delete]

\* cfg.input && strlen(cfg.input)
MigrationSendHasInput(c) == ~c.input.null /\ Len(c.input.s) # 0

\* cfg.sel == -1: the __u8 is promoted to int before the comparison.
MigrationSendSelMissing(c) == c.sel = -1

\* Mutant: Suspend/Resume refuse the state indexes only when both are set.
MigrationSendCheckBothIndexes(c) ==
    IF c.sel = MIGRATION_SEND_SUSPEND \/ c.sel = MIGRATION_SEND_RESUME
    THEN IF c.csuuidi # 0 /\ c.csvi # 0 THEN "Unexpected fields" ELSE "ok"
    ELSE IF c.sel = MIGRATION_SEND_SET_CONTROLLER_STATE
    THEN IF c.delete \/ c.stype # 0 THEN "Unexpected fields"
         ELSE IF c.input.null THEN "strlen(NULL)"
         ELSE IF Len(c.input.s) = 0 THEN "Expected file"
         ELSE "ok"
    ELSE "ok"

\* The "sanity check" of the input parameters: "ok", an error message, or
\* "strlen(NULL)" when the check dereferences the NULL input pointer.
MigrationSendCheck(c) ==
    IF c.sel = MIGRATION_SEND_SUSPEND \/ c.sel = MIGRATION_SEND_RESUME
    THEN IF c.csuuidi # 0 \/ c.csvi # 0 THEN "Unexpected fields" ELSE "ok"
    ELSE IF c.sel = MIGRATION_SEND_SET_CONTROLLER_STATE
    THEN IF c.delete \/ c.stype # 0 THEN "Unexpected fields"
         ELSE IF c.input.null THEN "strlen(NULL)"
         ELSE IF Len(c.input.s) = 0 THEN "Expected file"
         ELSE "ok"
    ELSE "ok"

\* The choices of the collaborators a run with config c can consult.
MigrationSendEnv(c) ==
    [parse : ParseRets \ {0}, strlenNull : {NotReached}, file : {NotReached}, err : {0}]
    \cup [parse : {0},
          strlenNull : IF MigrationSendCheck(c) = "strlen(NULL)"
                       THEN StrlenNullOutcomes ELSE {NotReached},
          file : IF MigrationSendHasInput(c) THEN FileOutcomes ELSE {NotReached},
          err : SubmitRets]

\* .cdw10 = (cfg.seqind << 16) | cfg.sel
MigrationSendCdw10(c) == Or32(Shl32(ToU32(c.seqind), 16), ToU32(c.sel))

\* Mutant: the shifts of the two state indexes are exchanged.
MigrationSendCdw11Swapped(c) ==
    IF c.sel = MIGRATION_SEND_SET_CONTROLLER_STATE
    THEN Or32(Or32(Shl32(ToU32(c.csuuidi), 16), Shl32(ToU32(c.csvi), 24)), ToU32(c.cntlid))
    ELSE Or32(Or32(Shl32(ToU32(IF c.delete THEN 1 ELSE 0), 31), Shl32(ToU32(c.stype), 16)),
              ToU32(c.cntlid))

\* .cdw11, by select.
MigrationSendCdw11(c) ==
    IF c.sel = MIGRATION_SEND_SET_CONTROLLER_STATE
    THEN Or32(Or32(Shl32(ToU32(c.csuuidi), 24), Shl32(ToU32(c.csvi), 16)), ToU32(c.cntlid))
    ELSE Or32(Or32(Shl32(ToU32(IF c.delete THEN 1 ELSE 0), 31), Shl32(ToU32(c.stype), 16)),
              ToU32(c.cntlid))

MigrationSendCmd(c, data) ==
    [opcode |-> NVME_ADMIN_MIGRATION_SEND,
     cdw10 |-> MigrationSendCdw10(c),
     cdw11 |-> MigrationSendCdw11(c),
     cdw12 |-> Lo32(c.offset),
     cdw13 |-> Hi32(c.offset),
     cdw15 |-> c.numd,
     addr |-> data,
     data_len |-> Shl32(c.numd, 2)]

\* n_data, the bytes fread delivered out of the size asked for.
MigrationSendNData(size, file) ==
    IF file \in {"short-read", "short-read-eio"} /\ size > 0 THEN size - 1 ELSE size

\* errno after the fread.
MigrationSendErrno(file) == IF file = "short-read-eio" THEN EIO ELSE 0

\* The run from the submit on: data is the payload buffer (0 = NULL).
MigrationSendSubmit(c, e, data, al) ==
    Submitted(c, MigrationSendCmd(c, data), e.err, e.err, SubmitMsgs(e.err), al, NotShown)

\* The run from the input-file block on.
MigrationSendFile(c, e) ==
    LET size == Shl32(c.numd, 2) IN
    IF ~MigrationSendHasInput(c) THEN MigrationSendSubmit(c, e, 0, <<>>)
    ELSE IF e.file = "fopen-fails" THEN Early(c, -EINVAL, <<"perror: input file">>, <<>>)
    ELSE IF e.file = "alloc-fails" THEN Early(c, -ENOMEM, <<>>, <<size>>)
    ELSE IF MigrationSendNData(WordVal(size), e.file) # WordVal(size)
        THEN Early(c, -MigrationSendErrno(e.file),
                   <<"failed to read controller state data">>, <<size>>)
    ELSE MigrationSendSubmit(c, e, BufAddr, <<size>>)

MigrationSendRun(a, e) ==
    LET c == MigrationSendCfg(a)
        chk == MigrationSendCheck(c)
    IN
    IF e.parse # 0 THEN Early(c, e.parse, <<>>, <<>>)
    ELSE IF MigrationSendSelMissing(c)
        THEN Early(c, -EINVAL, <<"Select field required">>, <<>>)
    ELSE IF chk = "strlen(NULL)"
        THEN IF e.strlenNull = "segv"
             THEN [Early(c, 0, <<>>, <<>>) EXCEPT !.status = "crashed"]
             ELSE IF e.strlenNull = "zero"
             THEN Early(c, -EINVAL, <<"Expected file">>, <<>>)
             ELSE MigrationSendFile(c, e)
    ELSE IF chk # "ok" THEN Early(c, -EINVAL, <<chk>>, <<>>)
    ELSE MigrationSendFile(c, e)

lm_migration_send ==
    /\ pc = "start"
    /\ \E a \in MigrationSendArgs :
        \E e \in MigrationSendEnv(MigrationSendCfg(a)) :
            Finish("migration-send", a, e, MigrationSendRun(a, e))

\* ------------------------------------------------- Controller State Data
\* enum nvme_print_flags, as the set of the flags that are set.
NORMAL == {}
FlagSets == {NORMAL, {"JSON"}, {"BINARY"}, {"VERBOSE"}, {"JSON", "VERBOSE"}, {"BINARY", "VERBOSE"}}

\* The device's buffer, as far as the decoder looks at it: the two queue
\* counts of struct nvme_controller_state_header.
DataVals == [niosq : 0..MaxQueues, niocq : 0..MaxQueues]

\* Byte offset of data->sdata.sq[i] and data->sdata.cq[i]: sdata follows the
\* 48-byte header, and the union of sq[] and cq[] follows sdata.hdr.
SqOffset(i) == SizeofCsdHeader + SizeofNvmeCsHeader + (i * SizeofSqData)
CqOffset(i) == SizeofCsdHeader + SizeofNvmeCsHeader + (i * SizeofCqData)

\* What a rendering exposed: which layers it printed, the byte offset of
\* every queue record it read, and its warnings.
Rendering(kind, hdr, nvmecs, sq, cq, warns) ==
    [kind |-> kind, hdr |-> hdr, nvmecs |-> nvmecs, sq |-> sq, cq |-> cq, warns |-> warns]

\* Mutant: <= in place of <.
SqTruncatedOrEqual(len, niosq) == len <= niosq * SizeofSqData

\* len < niosq * sizeof(struct nvme_io_submission_queue_data)
SqTruncated(len, niosq) == len < niosq * SizeofSqData
\* niosq after the clamp.
SqCount(len, niosq) == IF SqTruncated(len, niosq) THEN len \div SizeofSqData ELSE niosq
\* len < niocq * sizeof(struct nvme_io_completion_queue_data)
CqTruncated(len, niocq) == len < niocq * SizeofCqData
\* Mutant: the declared count is used without the clamp.
CqCountUnclamped(len, niocq) == niocq

\* niocq after the clamp.
CqCount(len, niocq) == IF CqTruncated(len, niocq) THEN len \div SizeofCqData ELSE niocq

\* The textual rendering of show_controller_state_data.
TextControllerStateData(data, len) ==
    LET hdr == SizeofCsdHeader <= len
        len1 == IF hdr THEN len - SizeofCsdHeader ELSE 0
        w1 == IF hdr THEN <<>> ELSE <<"WARNING: Header truncated">>
        len2 == len1 - SizeofNvmeCsHeader
        niosq == SqCount(len2, data.niosq)
        w2 == IF SqTruncated(len2, data.niosq)
              THEN <<"WARNING: I/O Submission Queues truncated">> ELSE <<>>
        len3 == len2 - (niosq * SizeofSqData)
        niocq == CqCount(len3, data.niocq)
        w3 == IF CqTruncated(len3, data.niocq)
              THEN <<"WARNING: I/O Completion Queues truncated">> ELSE <<>>
    IN
    IF len1 = 0 THEN Rendering("text", hdr, FALSE, <<>>, <<>>, w1)
    ELSE IF ~(SizeofNvmeCsHeader <= len1)
        THEN Rendering("text", hdr, FALSE, <<>>, <<>>,
                       w1 \o <<"WARNING: NVMe Controller State Data Structure truncated">>)
    ELSE Rendering("text", hdr, TRUE,
                   [i \in 1..niosq |-> SqOffset(i - 1)],
                   [i \in 1..niocq |-> CqOffset(niosq + (i - 1))],
                   w1 \o w2 \o w3)

\* json_controller_state_data: every layer is read, whatever len is.
JsonControllerStateData(data, len) ==
    Rendering("json", TRUE, TRUE,
              [i \in 1..data.niosq |-> SqOffset(i - 1)],
              [i \in 1..data.niocq |-> CqOffset(i - 1)],
              <<>>)

\* show_controller_state_data(data, len, offset, flags); offset is the
\* __u32 parameter.
ShowControllerStateData(data, len, offset, flags) ==
    IF "BINARY" \in flags THEN [kind |-> "raw", bytes |-> len]
    ELSE IF offset # W(0, 0) THEN [kind |-> "error", msg |-> "Cannot parse non-zero offset"]
    ELSE IF "JSON" \in flags THEN JsonControllerStateData(data, len)
    ELSE TextControllerStateData(data, len)

\* The decoder on its own, over every buffer length and declared counts.
ShowArgs == [data : DataVals, len : 0..MaxLen, offset : {W(0, 0), W(0, 16)}, flags : FlagSets]

show_controller_state_data ==
    /\ pc = "start"
    /\ \E a \in ShowArgs :
        Finish("show-controller-state", a, [none |-> TRUE],
               [cfg |-> [none |-> TRUE], allocs |-> <<>>, submitted |-> <<>>,
                status |-> "returned", ret |-> 0, errs |-> <<>>,
                shown |-> ShowControllerStateData(a.data, a.len, a.offset, a.flags)])

\* ------------------------------------------------------- Migration Receive
RecvNumdVals == {W(0, 0), W(0, 13), W(0, 19), W(0, 31), W(Half - 1, Half - 1)}
RecvOffsetVals ==
    {[hi32 |-> W(0, 0), lo32 |-> W(0, 0)], [hi32 |-> W(0, 1), lo32 |-> W(0, 0)],
     [hi32 |-> W(0, 0), lo32 |-> W(0, 16)]}
FormatVals == {"normal", "json", "binary", "bogus"}
RecvDataVals == [niosq : {0, 2}, niocq : {0, 1}]
\* What happens to the output file: fopen fails (fd stays NULL) and the
\* later fwrite(…, NULL) faults or returns 0; fwrite writes too little;
\* everything is written.
OutputOutcomes == {"fopen-fails-segv", "fopen-fails-short", "short-write", "ok"}

MigrationRecvArgs ==
    [cntlid : MsCntlidVals, csuuidi : {0, 1}, csvi : {2}, offset : RecvOffsetVals,
     numd : RecvNumdVals, output : InputVals, output_format : FormatVals,
     human_readable : BOOLEAN]

MigrationRecvCfg(a) ==
    [cntlid |-> ToU16(a.cntlid),
     csuuidi |-> ToU8(a.csuuidi),
     csvi |-> ToU8(a.csvi),
     offset |-> a.offset,
     numd |-> a.numd,
     output |-> a.output,
     output_format |-> a.output_format,
     human_readable |-> a.human_readable]

\* validate_output_format: the flags of a known format name, or an error.
ValidateOutputFormat(fmt) ==
    IF fmt = "normal" THEN [err |-> 0, flags |-> NORMAL]
    ELSE IF fmt = "json" THEN [err |-> 0, flags |-> {"JSON"}]
    ELSE IF fmt = "binary" THEN [err |-> 0, flags |-> {"BINARY"}]
    ELSE [err |-> -EINVAL, flags |-> NORMAL]

\* cfg.output && strlen(cfg.output)
MigrationRecvHasOutput(c) == ~c.output.null /\ Len(c.output.s) # 0

\* Mutant: only the low 32 bits of the offset are compared with 0.
MigrationRecvOffsetRefusedLow32(c, flags) ==
    /\ Lo32(c.offset) # W(0, 0)
    /\ "BINARY" \notin flags

\* cfg.output_format && cfg.offset != 0 && !(flags & BINARY)
MigrationRecvOffsetRefused(c, flags) ==
    /\ c.offset # [hi32 |-> W(0, 0), lo32 |-> W(0, 0)]
    /\ "BINARY" \notin flags

MigrationRecvEnv(c) ==
    [parse : ParseRets \ {0}, allocOk : {TRUE}, err : {0}, data : {[niosq |-> 0, niocq |-> 0]},
     file : {NotReached}]
    \cup [parse : {0}, allocOk : BOOLEAN, err : SubmitRets,
          data : IF MigrationRecvHasOutput(c) \/ c.output_format = "binary"
                 THEN {[niosq |-> 0, niocq |-> 0]} ELSE RecvDataVals,
          file : IF MigrationRecvHasOutput(c) THEN OutputOutcomes ELSE {NotReached}]

MigrationRecvCmd(c, data) ==
    [opcode |-> NVME_ADMIN_MIGRATION_RECEIVE,
     cdw10 |-> Or32(Shl32(ToU32(c.csvi), 16), ToU32(MIGRATION_RECV_GET_CONTROLLER_STATE)),
     cdw11 |-> Or32(Shl32(ToU32(c.csuuidi), 16), ToU32(c.cntlid)),
     cdw12 |-> Lo32(c.offset),
     cdw13 |-> Hi32(c.offset),
     cdw15 |-> c.numd,
     addr |-> data,
     data_len |-> Shl32(Add32(c.numd, 1), 2)]

\* The branch taken when the submit returned 0.
MigrationRecvSuccess(c, e, flags, cmd, al) ==
    LET cdw0 == IF flags = NORMAL THEN <<"CDW0">> ELSE <<>> IN
    IF MigrationRecvHasOutput(c)
    THEN IF e.file = "fopen-fails-segv"
         THEN [Submitted(c, cmd, e.err, 0, <<>>, al, [kind |-> "file", wrote |-> ToU32(0)])
               EXCEPT !.status = "crashed"]
         ELSE IF e.file \in {"fopen-fails-short", "short-write"}
         THEN Submitted(c, cmd, e.err, 0, <<"ERROR: failed to write buffer to output file">>,
                        al, [kind |-> "file", wrote |-> ToU32(0)])
         ELSE Submitted(c, cmd, e.err, 0, <<>>, al,
                        [kind |-> "file", wrote |-> Shl32(c.numd, 2)])
    ELSE Submitted(c, cmd, e.err, 0, <<>>, al,
                   ShowControllerStateData(e.data, WordVal(Shl32(Add32(c.numd, 1), 2)),
                                           Lo32(c.offset), flags))

MigrationRecvRun(a, e) ==
    LET c == MigrationRecvCfg(a)
        v == ValidateOutputFormat(c.output_format)
        flags == IF c.human_readable THEN v.flags \cup {"VERBOSE"} ELSE v.flags
        size == Shl32(Add32(c.numd, 1), 2)
        cmd == MigrationRecvCmd(c, BufAddr)
    IN
    IF e.parse # 0 THEN Early(c, e.parse, <<>>, <<>>)
    ELSE IF v.err < 0 THEN Early(c, v.err, <<"Invalid output format">>, <<>>)
    ELSE IF MigrationRecvOffsetRefused(c, v.flags)
        THEN Early(c, -EINVAL, <<"cannot parse non-zero offset">>, <<>>)
    ELSE IF ~e.allocOk THEN Early(c, -ENOMEM, <<>>, <<size>>)
    ELSE IF e.err # 0
        THEN Submitted(c, cmd, e.err, 0, SubmitMsgs(e.err), <<size>>, NotShown)
    ELSE MigrationRecvSuccess(c, e, flags, cmd, <<size>>)

lm_migration_recv ==
    /\ pc = "start"
    /\ \E a \in MigrationRecvArgs :
        \E e \in MigrationRecvEnv(MigrationRecvCfg(a)) :
            Finish("migration-recv", a, e, MigrationRecvRun(a, e))

\* ------------------------------------------------------ CDQ feature (0x21)
\* sizeof(struct controller_data_queue_fid_data): 4 + 4 + 504
SizeofFidData == 512
HpVals == {W(0, 0), W(0, 7), W(1, 2), W(Pow2(15), 1), W(Half - 1, Half - 1)}
TptVals == {W(0, 0), W(0, 9), W(258, 772), W(Pow2(15) - 1, Half - 1), W(Pow2(15), 0),
            W(Half - 1, Half - 1)}

\* The four bytes of a 32-bit word on the little-endian wire.
Le32Bytes(w) == <<w.lo % 256, w.lo \div 256, w.hi % 256, w.hi \div 256>>
\* le32_to_cpu of the four bytes at byte offset k of a buffer.
Le32ToCpu(buf, k) == W(buf[k + 3] + (256 * buf[k + 4]), buf[k + 1] + (256 * buf[k + 2]))

\* struct controller_data_queue_fid_data holding head pointer hp and
\* tail-pointer trigger tpt: hp at bytes 0..3, tpt at 4..7, 504 reserved.
FidData(hp, tpt) == Le32Bytes(hp) \o Le32Bytes(tpt) \o [i \in 1..(SizeofFidData - 8) |-> 0]
\* Mutant: the trigger is read at the head pointer's offset.
FidDataTptAtHp(data) == Le32ToCpu(data, 0)

\* le32_to_cpu(data->hp) and le32_to_cpu(data->tpt)
FidDataHp(data) == Le32ToCpu(data, 0)
FidDataTpt(data) == Le32ToCpu(data, 4)

SetCdqArgs == [cdqid : CdqidVals, hp : HpVals, tpt : Opt(TptVals)]
SetCdqEnv == [parse : ParseRets \ {0}, err : {0}] \cup [parse : {0}, err : SubmitRets]

\* struct config: .cdqid = 0, .hp = 0, .tpt = -1 (an __s32, kept as its
\* 32-bit pattern), overwritten by the options given.
SetCdqCfg(a) ==
    [cdqid |-> ToU16(a.cdqid),
     hp |-> a.hp,
     tpt |-> IF a.tpt = <<>> THEN ToU32(-1) ELSE a.tpt[1]]

\* Mutant: cfg.tpt > 0 in place of cfg.tpt >= 0.
SetCdqCdw11Positive(c) ==
    Or32(ToU32(c.cdqid),
         IF ~IsNegS32(c.tpt) /\ c.tpt # ToU32(0) THEN Shl32(ToU32(1), 31) ELSE ToU32(0))

\* .cdw11 = cfg.cdqid | ((cfg.tpt >= 0) ? (1 << 31) : 0)
SetCdqCdw11(c) ==
    Or32(ToU32(c.cdqid), IF ~IsNegS32(c.tpt) THEN Shl32(ToU32(1), 31) ELSE ToU32(0))

\* struct nvme_set_features_args of lm_set_cdq.
SetCdqFeatureArgs(c) ==
    [opcode |-> "set-features",
     fid |-> lm_cdq_feature_id,
     cdw11 |-> SetCdqCdw11(c),
     cdw12 |-> c.hp,
     cdw13 |-> c.tpt]

SetCdqRun(a, e) ==
    LET c == SetCdqCfg(a) IN
    IF e.parse # 0 THEN Early(c, e.parse, <<>>, <<>>)
    ELSE Submitted(c, SetCdqFeatureArgs(c), e.err, e.err, SubmitMsgs(e.err), <<>>, NotShown)

lm_set_cdq ==
    /\ pc = "start"
    /\ \E a \in SetCdqArgs, e \in SetCdqEnv :
        Finish("set-cdq", a, e, SetCdqRun(a, e))

GetCdqArgs == [cdqid : CdqidVals, output_format : FormatVals]
\* The payload the device returns is any feature record.
GetCdqPayloads == {FidData(h, t) : h \in {W(0, 7), W(Pow2(15), 1)}, t \in {W(0, 9), W(Half - 1, Half - 1)}}
GetCdqEnv ==
    [parse : ParseRets \ {0}, err : {0}, data : {FidData(W(0, 0), W(0, 0))}]
    \cup [parse : {0}, err : SubmitRets, data : GetCdqPayloads]

GetCdqCfg(a) == [cdqid |-> ToU16(a.cdqid), output_format |-> a.output_format]

\* struct nvme_get_features_args of lm_get_cdq.
GetCdqFeatureArgs(c) ==
    [opcode |-> "get-features",
     fid |-> lm_cdq_feature_id,
     cdw11 |-> ToU32(c.cdqid),
     data_len |-> SizeofFidData]

\* lm_show_controller_data_queue (and its JSON twin).
ShowControllerDataQueue(data, flags) ==
    IF "JSON" \in flags
    THEN [kind |-> "json", head_pointer |-> FidDataHp(data),
          tail_pointer_trigger |-> FidDataTpt(data)]
    ELSE IF "BINARY" \in flags THEN [kind |-> "raw", bytes |-> SizeofFidData]
    ELSE [kind |-> "text", head_pointer |-> FidDataHp(data),
          tail_pointer_trigger |-> FidDataTpt(data)]

GetCdqRun(a, e) ==
    LET c == GetCdqCfg(a)
        v == ValidateOutputFormat(c.output_format)
    IN
    IF e.parse # 0 THEN Early(c, e.parse, <<>>, <<>>)
    ELSE IF v.err < 0 THEN Early(c, v.err, <<"Invalid output format">>, <<>>)
    ELSE Submitted(c, GetCdqFeatureArgs(c), e.err, e.err, SubmitMsgs(e.err), <<>>,
                   IF e.err = 0 THEN ShowControllerDataQueue(e.data, v.flags) ELSE NotShown)

lm_get_cdq ==
    /\ pc = "start"
    /\ \E a \in GetCdqArgs, e \in GetCdqEnv :
        Finish("get-cdq", a, e, GetCdqRun(a, e))

\* ------------------------------------------------------------------- spec
Next ==
    \/ lm_create_cdq
    \/ lm_delete_cdq
    \/ lm_track_send
    \/ lm_migration_send
    \/ lm_migration_recv
    \/ lm_set_cdq
    \/ lm_get_cdq

Spec == Init /\ [][Next]_vars

\* The controller-state decoder applied to every input of its domain.
DecodeNext == show_controller_state_data

DecodeSpec == Init /\ [][DecodeNext]_vars

\* ================================================================= claims
\* The handler `name` ran to its end after parse_and_open succeeded.
Ran(name) == pc = "exit" /\ op = name /\ env.parse = 0
Range(f) == {f[i] : i \in DOMAIN f}
Min(a, b) == IF a <= b THEN a ELSE b
\* A 32-bit word is a multiple of 8 exactly when its low half is.
MultipleOf8(w) == (w.lo % 8) = 0

\* C1: Create CDQ with a size (in dwords) that is not a multiple of 8 fails
\* with EINVAL, having neither allocated a buffer nor submitted a command;
\* with a multiple of 8 the size check passes: the buffer is requested and,
\* once it is granted, the command carrying the size is built and submitted.
C1_CreateCdqSizeMultipleOf8 ==
    Ran("create-cdq") =>
        IF ~MultipleOf8(args.sz)
        THEN /\ status = "returned"
             /\ ret = EINVAL
             /\ allocs = <<>>
             /\ submitted = <<>>
        ELSE /\ allocs = <<Shl32(args.sz, 2)>>
             /\ "ERROR: Size must be dword multiple of queue entry size" \notin Range(errs)
             /\ env.allocOk =>
                    /\ Len(submitted) = 1
                    /\ submitted[1].cmd.opcode = NVME_ADMIN_CONTROLLER_DATA_QUEUE
                    /\ submitted[1].cmd.cdw12 = args.sz

\* C1 witness: size 7 was refused before any allocation or submit.
C1_Witness ==
    /\ Ran("create-cdq")
    /\ args.sz = W(0, 7)
    /\ ret = EINVAL
    /\ allocs = <<>>
    /\ submitted = <<>>

\* C2: Migration Send fails, without a submit, whenever select was not
\* supplied or is not 0, 1 or 2; a command is submitted only with select
\* in {0, 1, 2}.  (Violated by the code.)
C2_MigrationSendSelectMandatory ==
    Ran("migration-send") =>
        /\ (args.sel = <<>> \/ args.sel[1] \notin {0, 1, 2}) =>
                (status = "returned" /\ ret # 0 /\ submitted = <<>>)
        /\ submitted # <<>> => args.sel \in {<<0>>, <<1>>, <<2>>}

\* C3: Migration Send with select Suspend or Resume and a non-zero
\* uuid-index or version-index fails with -EINVAL and submits nothing,
\* whatever the other fields are.
C3_SuspendResumeRefuseIndexes ==
    (/\ Ran("migration-send")
     /\ args.sel \in {<<MIGRATION_SEND_SUSPEND>>, <<MIGRATION_SEND_RESUME>>}
     /\ (args.csuuidi # 0 \/ args.csvi # 0))
    => /\ status = "returned"
       /\ ret = -EINVAL
       /\ allocs = <<>>
       /\ submitted = <<>>

\* C3 witness: a Suspend with only the version-index set, and with the other
\* fields off their defaults, was refused.
C3_Witness ==
    /\ Ran("migration-send")
    /\ args.sel = <<MIGRATION_SEND_SUSPEND>>
    /\ args.csuuidi = 0
    /\ args.csvi = 2
    /\ args.delete
    /\ args.stype = 1
    /\ ~args.input.null
    /\ ret = -EINVAL
    /\ submitted = <<>>

\* C4: Migration Send with select SetControllerState fails with -EINVAL and
\* submits nothing whenever delete is set, suspend-type is non-zero, or the
\* input payload is absent or empty; it submits only with delete false,
\* suspend-type 0 and a payload present.  (Violated by the code.)
C4_SetControllerStateValidation ==
    (Ran("migration-send") /\ args.sel = <<MIGRATION_SEND_SET_CONTROLLER_STATE>>) =>
        /\ (args.delete \/ args.stype # 0 \/ args.input.null \/ args.input.s = <<>>) =>
                (status = "returned" /\ ret = -EINVAL /\ submitted = <<>>)
        /\ submitted # <<>> =>
                (~args.delete /\ args.stype = 0 /\ ~args.input.null /\ args.input.s # <<>>)

C6_TrackSendStartStopExclusive ==
    (Ran("track-send") /\ args.start /\ args.stop) =>
        /\ status = "returned"
        /\ ret = -EINVAL
        /\ submitted = <<>>

\* C6 witness: the supported select with both flags set was refused by the
\* start/stop check.
C6_Witness ==
    /\ Ran("track-send")
    /\ args.select = <<TRACK_SEND_SELECT_LOG_USER_DATA_CHANGES>>
    /\ args.start
    /\ args.stop
    /\ ret = -EINVAL
    /\ errs = <<"Must select one of start & stop, not both">>
    /\ submitted = <<>>

\* C7: Track Send without a select fails as a missing required field; with
\* a supplied select other than 0 it fails as unsupported; neither submits,
\* and a command is submitted only with select = 0.  (Violated by the code.)
C7_TrackSendSelect ==
    Ran("track-send") =>
        /\ args.select = <<>> =>
                (status = "returned" /\ errs = <<"Select field required">>
                 /\ submitted = <<>>)
        /\ (args.select # <<>> /\ args.select # <<0>>) =>
                (status = "returned" /\ errs = <<"Unsupported select option">>
                 /\ submitted = <<>>)
        /\ submitted # <<>> => args.select = <<0>>

\* C8: once the 48-byte and 8-byte headers are consumed from a buffer of
\* len bytes, the textual decoder produces min(niosq, (len - 56) / 24)
\* submission-queue records and warns of truncation exactly when that is
\* fewer than niosq declares; 80 bytes declaring niosq = 2, niocq = 0 give
\* one record and the warning.
C8_SubmissionQueueClamp ==
    (/\ pc = "exit"
     /\ op = "show-controller-state"
     /\ shown.kind = "text"
     /\ args.len >= SizeofCsdHeader + SizeofNvmeCsHeader)
    => LET n == Min(args.data.niosq, (args.len - 56) \div 24)
           warned == "WARNING: I/O Submission Queues truncated" \in Range(shown.warns)
       IN
       /\ Len(shown.sq) = n
       /\ warned <=> (n < args.data.niosq)
       /\ (args.len = 80 /\ args.data.niosq = 2 /\ args.data.niocq = 0) =>
                (Len(shown.sq) = 1 /\ warned)

\* C8 witness: the 80-byte buffer declaring two submission queues was
\* decoded to one record with the truncation warning.
C8_Witness ==
    /\ pc = "exit"
    /\ op = "show-controller-state"
    /\ shown.kind = "text"
    /\ args.len = 80
    /\ args.data = [niosq |-> 2, niocq |-> 0]
    /\ Len(shown.sq) = 1
    /\ shown.warns = <<"WARNING: I/O Submission Queues truncated">>

\* C9: in a submitted Set CDQ feature, bit 31 of cdw11 is 0 when the
\* trigger is -1 and 1 when it is non-negative, the low 16 bits of cdw11
\* are the cdq-id, and a non-negative trigger is cdw13 verbatim.
C9_SetCdqTriggerBit ==
    (Ran("set-cdq") /\ submitted # <<>>) =>
        LET cmd == submitted[1].cmd
            trigger == IF args.tpt = <<>> THEN W(Half - 1, Half - 1) ELSE args.tpt[1]
        IN
        /\ Low16(cmd.cdw11) = args.cdqid
        /\ trigger = W(Half - 1, Half - 1) => Bit31(cmd.cdw11) = 0
        /\ trigger.hi < Pow2(15) => (Bit31(cmd.cdw11) = 1 /\ cmd.cdw13 = trigger)

\* C9 witness: a Set CDQ with trigger 0 was submitted with the has-trigger
\* bit set.
C9_Witness ==
    /\ Ran("set-cdq")
    /\ args.tpt = <<W(0, 0)>>
    /\ args.cdqid = 3
    /\ Len(submitted) = 1
    /\ submitted[1].cmd.cdw11 = W(Pow2(15), 3)
    /\ submitted[1].cmd.cdw13 = W(0, 0)

\* C10: the head pointer and a non-negative trigger of a submitted Set CDQ,
\* laid out as the feature record and decoded as Get CDQ decodes it, come
\* back unchanged.
C10_CdqFeatureRoundTrip ==
    (/\ Ran("set-cdq")
     /\ submitted # <<>>
     /\ args.tpt # <<>>
     /\ args.tpt[1].hi < Pow2(15))
    => LET cmd == submitted[1].cmd
           payload == FidData(cmd.cdw12, cmd.cdw13)
       IN
       /\ Len(payload) = SizeofFidData
       /\ FidDataHp(payload) = args.hp
       /\ FidDataTpt(payload) = args.tpt[1]

\* C10 witness: a head pointer above 2^31 and a trigger with four distinct
\* bytes went through the round trip.
C10_Witness ==
    /\ Ran("set-cdq")
    /\ Len(submitted) = 1
    /\ args.hp = W(Pow2(15), 1)
    /\ args.tpt = <<W(258, 772)>>
    /\ FidDataTpt(FidData(submitted[1].cmd.cdw12, submitted[1].cmd.cdw13)) = W(258, 772)


\* The messages of the checks made before any buffer or command exists.
ValidationMsgs ==
    {"ERROR: Size must be dword multiple of queue entry size", "Select field required",
     "Unsupported select option", "Must select one of start & stop, not both",
     "Unexpected fields", "Expected file", "Invalid output format",
     "cannot parse non-zero offset"}
\* The run ended on a failed validation.
ValidationFailed == status = "returned" /\ errs # <<>> /\ errs[Len(errs)] \in ValidationMsgs
\* The run ended because nvme_alloc_huge returned NULL.
AllocationFailed ==
    /\ status = "returned"
    /\ allocs # <<>>
    /\ \/ (op \in {"create-cdq", "migration-recv"} /\ ~env.allocOk)
       \/ (op = "migration-send" /\ env.file = "alloc-fails")
ZeroOffset == [hi32 |-> W(0, 0), lo32 |-> W(0, 0)]

\* C11: in every operation, when the submit returns a negative or a
\* positive value the operation returns exactly that value, and it returns
\* 0 only when the submit returned 0.  (Violated by the code.)
C11_SubmitErrorsSurfaced ==
    (pc = "exit" /\ status = "returned" /\ env.parse = 0 /\ submitted # <<>>) =>
        /\ submitted[1].err # 0 => ret = submitted[1].err
        /\ ret = 0 => submitted[1].err = 0

\* C12: a run that ends on a validation error or on a failed buffer
\* allocation has called submit zero times, and no run calls submit more
\* than once.
C12_FailuresPrecedeSubmit ==
    pc = "exit" =>
        /\ Len(submitted) <= 1
        /\ (env.parse = 0 /\ (ValidationFailed \/ AllocationFailed)) => submitted = <<>>

\* C12 witness: a Migration Receive whose buffer allocation failed ended
\* without a submit.
C12_Witness ==
    /\ Ran("migration-recv")
    /\ ~env.allocOk
    /\ allocs # <<>>
    /\ ret = -ENOMEM
    /\ submitted = <<>>

\* C13: Migration Receive with a non-zero offset and the normal or json
\* output format fails with -EINVAL before any allocation or submit, so a
\* text or json rendering is only ever made of data fetched at offset 0.
C13_RecvOffsetNeedsBinary ==
    Ran("migration-recv") =>
        /\ (args.offset # ZeroOffset /\ args.output_format \in {"normal", "json"}) =>
                /\ status = "returned"
                /\ ret = -EINVAL
                /\ allocs = <<>>
                /\ submitted = <<>>
                /\ shown = NotShown
        /\ shown.kind \in {"text", "json", "error"} => args.offset = ZeroOffset

\* C13 witness: an offset of 2^32 (low word 0) with the normal format was
\* refused.
C13_Witness ==
    /\ Ran("migration-recv")
    /\ args.offset = [hi32 |-> W(0, 1), lo32 |-> W(0, 0)]
    /\ args.output_format = "normal"
    /\ ret = -EINVAL
    /\ allocs = <<>>
    /\ submitted = <<>>

\* C14: a submitted Migration Send carries a buffer address or a non-zero
\* data length only when select is SetControllerState and a payload was
\* supplied; otherwise the address is NULL and the length 0.  (Violated by
\* the code.)
C14_PayloadOnlyForSetControllerState ==
    (Ran("migration-send") /\ submitted # <<>>) =>
        LET cmd == submitted[1].cmd
            payload == ~args.input.null /\ args.input.s # <<>>
        IN
        (cmd.addr # 0 \/ cmd.data_len # W(0, 0)) =>
            (args.sel = <<MIGRATION_SEND_SET_CONTROLLER_STATE>> /\ payload)

\* C15: in the textual rendering of a buffer of len >= 56 bytes, with nsq
\* submission-queue records printed, the completion-queue records number
\* min(niocq, (len - 56 - 24*nsq) / 24), record i is read at byte
\* 56 + 24*(nsq + i), and 56 + 24*(nsq + ncq) <= len.
C15_CompletionQueueClamp ==
    (/\ pc = "exit"
     /\ op = "show-controller-state"
     /\ shown.kind = "text"
     /\ args.len >= SizeofCsdHeader + SizeofNvmeCsHeader)
    => LET nsq == Len(shown.sq)
           ncq == Len(shown.cq)
       IN
       /\ ncq = Min(args.data.niocq, ((args.len - 56) - (24 * nsq)) \div 24)
       /\ \A i \in 0..(ncq - 1) : shown.cq[i + 1] = 56 + (24 * (nsq + i))
       /\ 56 + (24 * (nsq + ncq)) <= args.len

\* C15 witness: 128 bytes declaring 2 submission and 3 completion queues:
\* after the two submission records only one completion record fits, at
\* byte 104.
C15_Witness ==
    /\ pc = "exit"
    /\ op = "show-controller-state"
    /\ shown.kind = "text"
    /\ args.len = 128
    /\ args.data = [niosq |-> 2, niocq |-> 3]
    /\ Len(shown.sq) = 2
    /\ shown.cq = <<104>>
    /\ shown.warns = <<"WARNING: I/O Completion Queues truncated">>

\* C16: the json rendering emits as many submission- and completion-queue
\* records as the textual rendering of the same buffer, reads completion
\* record i after the submission records, and reads no header or record
\* beyond the buffer length.  (Violated by the code.)
C16_JsonMatchesText ==
    (pc = "exit" /\ op = "show-controller-state" /\ shown.kind = "json") =>
        LET text == TextControllerStateData(args.data, args.len)
            nsq == Len(shown.sq)
        IN
        /\ nsq = Len(text.sq)
        /\ Len(shown.cq) = Len(text.cq)
        /\ \A i \in 1..Len(shown.cq) : shown.cq[i] = 56 + (24 * (nsq + (i - 1)))
        /\ shown.hdr => SizeofCsdHeader <= args.len
        /\ shown.nvmecs => SizeofCsdHeader + SizeofNvmeCsHeader <= args.len
        /\ \A i \in 1..nsq : shown.sq[i] + SizeofSqData <= args.len
        /\ \A i \in 1..Len(shown.cq) : shown.cq[i] + SizeofCqData <= args.len

\* C17: a submitted Track Send (select 0) given management operation m
\* encodes 1 when start is set, 0 when stop is set and m otherwise, in
\* cdw10 = select | (management-op << 16), with cdw11 = cdq-id.
C17_TrackSendMosMapping ==
    (Ran("track-send") /\ submitted # <<>>) =>
        LET cmd == submitted[1].cmd
            mop == IF args.start THEN 1 ELSE IF args.stop THEN 0 ELSE args.mos
        IN
        /\ args.select = <<0>>
        /\ cmd.cdw10 = W(mop, 0)
        /\ cmd.cdw11 = W(0, args.cdqid)

\* C17 witness: start overrode a supplied management operation of 7.
C17_Witness ==
    /\ Ran("track-send")
    /\ args.start
    /\ args.mos = 7
    /\ args.cdqid = 3
    /\ Len(submitted) = 1
    /\ submitted[1].cmd.cdw10 = W(1, 0)
    /\ submitted[1].cmd.cdw11 = W(0, 3)

\* C18: a Migration Send whose payload file cannot be opened or delivers
\* fewer bytes than asked returns a non-zero value and submits nothing; a
\* Migration Receive whose write to the output file fails returns a
\* non-zero value.  (Violated by the code.)
C18_IoFailuresReported ==
    /\ (/\ Ran("migration-send")
        /\ status = "returned"
        /\ \/ (env.file = "fopen-fails" /\ ~ValidationFailed)
           \/ /\ env.file \in {"short-read", "short-read-eio"}
              /\ allocs # <<>>
              /\ allocs[1] # W(0, 0))
       => (ret # 0 /\ submitted = <<>>)
    /\ (/\ Ran("migration-recv")
        /\ status = "returned"
        /\ submitted # <<>>
        /\ submitted[1].err = 0
        /\ env.file \in {"fopen-fails-short", "short-write"})
       => ret # 0

\* C19: every failure detected locally (validation, allocation, file I/O,
\* transport) is returned as a negative value; a positive return value is
\* the device status the submit of that run returned.  (Violated by the
\* code.)
C19_SignDiscipline ==
    (pc = "exit" /\ status = "returned") =>
        /\ ret > 0 => (submitted # <<>> /\ submitted[1].err = ret)
        /\ (env.parse = 0 /\ (ValidationFailed \/ AllocationFailed)) => ret < 0

====
